---- MODULE Spec2Model ----
(* Model of cfs (src/src/main.rs): a minimal container launcher.           *)
(* Two processes take part in a launch: the parent (main, run) and the     *)
(* child created by clone (child_func).  The host file system, the cgroup  *)
(* files and the installed provisioning tool persist across launches.      *)
EXTENDS Integers, Sequences, FiniteSets, TLC

VARIABLES
    launch,     \* number of the current launch of the program
    argv,       \* env::args() of the current launch
    pc,         \* parent position: "main", "clone", "unshare", "waitpid", "done"
    exitStatus, \* exit status of the program (NoExit while it runs)
    plog,       \* what the parent printed, in order
    ptrace,     \* primitives the parent invoked, in order
    live,       \* parent buffers currently allocated: "stack", "child_args"
    pid,        \* return value of libc::clone (0 before the call)
    status,     \* the local `status` of run, filled by waitpid
    waitRet,    \* return value of libc::waitpid (0 before the call)
    cpc,        \* child position: "none", a step of child_func, "cmd_running", "exited"
    cargs,      \* the child's view of child_args
    ctrace,     \* primitives, spawns and messages of the child, in order
    croot,      \* root directory of the child, as a host path
    chost,      \* hostname in the child's UTS namespace
    mounts,     \* host paths mounted in the child's mount namespace
    cstatus,    \* the local `status` of child_func
    cmdCode,    \* how the target command ended (NotRun, NoCode or its exit code)
    cexit,      \* how the child terminated
    dirs,       \* directories of the host file system (host paths)
    files,      \* files written by the program: host path -> content
    installed,  \* TRUE when debootstrap is on the host's search path
    provCount   \* number of times debootstrap was invoked on this host

parentVars == <<argv, pc, exitStatus, plog, ptrace, live, pid, status, waitRet>>
childVars  == <<cpc, cargs, ctrace, croot, chost, mounts, cstatus, cmdCode, cexit>>
hostVars   == <<dirs, files, installed, provCount>>
vars       == <<launch, parentVars, childVars, hostVars>>

----------------------------------------------------------------------------
(* Bounds                                                                  *)
MaxLaunches  == 2
MaxCode      == 2
MaxExtraArgs == 1

(* Program constants                                                       *)
PidsMax    == 20
NotifyFlag == 1
ChildNsPid == 1
HostChildPid == 100
PanicExit  == 101
SigAbrtStatus == 134

NoExit == -1
NoCode == -1
NotRun == -2

RootPath   == <<"home", "ubuntu-fs">>
ProcPath   == <<"proc">>
CgroupPath == <<"sys", "fs", "cgroup", "pids">>
HostRoot   == <<>>
Hostname   == "container"

ExitCodes == 0..MaxCode

Extra(n) == [i \in 1..n |-> "arg"]

ArgvSet ==
    {<<"cfs">>, <<"cfs", "run">>, <<"cfs", "frobnicate">>}
        \cup {<<"cfs", "run", "cmd">> \o Extra(n) : n \in 0..MaxExtraArgs}

----------------------------------------------------------------------------
(* Pure helpers                                                            *)

\* A path given to a system call by a process whose root is `root`.
Resolve(root, path) == root \o path

\* All non-empty prefixes of a path: what create_dir_all creates.
Prefixes(path) == {SubSeq(path, 1, n) : n \in 1..Len(path)}

\* A write that adds to what the file already holds.
WriteFileAdditive(f, p, v) ==
    [q \in (DOMAIN f) \cup {p} |->
        IF q = p THEN (IF p \in DOMAIN f THEN f[p] + v ELSE v) ELSE f[q]]

\* fs::write(path, contents): the file holds exactly the contents.
WriteFile(f, p, v) == [q \in (DOMAIN f) \cup {p} |-> IF q = p THEN v ELSE f[q]]

\* child_func with the command run before the resource limiter is configured.
ChildSeqCmdBeforeCg ==
    <<"ensure_debootstrap", "bootstrap_rootfs", "set_hostname", "chroot",
      "mount_proc", "run_cmd", "cg", "unmount_proc">>

\* child_func with /proc mounted before the root is switched.
ChildSeqMountBeforeChroot ==
    <<"ensure_debootstrap", "bootstrap_rootfs", "set_hostname", "mount_proc",
      "chroot", "cg", "run_cmd", "unmount_proc">>

\* Order of the calls in child_func.
ChildSeq ==
    <<"ensure_debootstrap", "bootstrap_rootfs", "set_hostname", "chroot",
      "mount_proc", "cg", "run_cmd", "unmount_proc">>

IndexOf(seq, x) == CHOOSE i \in 1..Len(seq) : seq[i] = x

\* The call of child_func that follows call s.
StepAfter(s) == ChildSeq[IndexOf(ChildSeq, s) + 1]

\* Wait status the kernel reports for a terminated child.
WStatus(e) == IF e.kind = "exit" THEN (e.code % 256) * 256 ELSE SigAbrtStatus

Exited(c) == [kind |-> "exit", code |-> c]
Aborted   == [kind |-> "abort", code |-> NoCode]
Running   == [kind |-> "none", code |-> NoCode]

\* status.code().unwrap_or(1)
CodeOr1(c) == IF c = NoCode THEN 1 ELSE c

----------------------------------------------------------------------------
(* Initial state: the program has been started with some arguments.        *)

FreshChild ==
    /\ cpc = "none"
    /\ cargs = <<>>
    /\ ctrace = <<>>
    /\ croot = HostRoot
    /\ chost = "host"
    /\ mounts = {}
    /\ cstatus = NoCode
    /\ cmdCode = NotRun
    /\ cexit = Running

Init ==
    /\ launch = 1
    /\ argv \in ArgvSet
    /\ pc = "main"
    /\ exitStatus = NoExit
    /\ plog = <<>>
    /\ ptrace = <<>>
    /\ live = {}
    /\ pid = 0
    /\ status = 0
    /\ waitRet = 0
    /\ FreshChild
    /\ dirs \in {{<<"proc">>, <<"sys">>, <<"sys", "fs">>, <<"sys", "fs", "cgroup">>},
                 {<<"proc">>, <<"sys">>, <<"sys", "fs">>, <<"sys", "fs", "cgroup">>,
                  RootPath, RootPath \o <<"proc">>, RootPath \o <<"sys">>}}
    /\ files = [p \in {} |-> 0]
    /\ installed \in BOOLEAN
    /\ provCount = 0

----------------------------------------------------------------------------
(* The parent: main and run                                                *)

\* main would accept `run` without a command.
NeedCommandNever == FALSE

\* main: the test `args.len() < 3` of the `run` arm.
NeedCommand == Len(argv) < 3

\* main: dispatch on the arguments; the `run` arm enters run, which prints
\* the banner and allocates the stack and child_args before calling clone.
Main ==
    /\ pc = "main"
    /\ IF Len(argv) < 2
       THEN /\ plog' = Append(plog, "usage")
            /\ pc' = "done"
            /\ exitStatus' = 0
            /\ UNCHANGED live
       ELSE IF argv[2] = "run"
       THEN IF NeedCommand
            THEN /\ plog' = Append(plog, "need_command")
                 /\ pc' = "done"
                 /\ exitStatus' = 1
                 /\ UNCHANGED live
            ELSE /\ plog' = Append(plog, "running")
                 /\ live' = {"stack", "child_args"}
                 /\ pc' = "clone"
                 /\ UNCHANGED exitStatus
       ELSE /\ plog' = Append(plog, "unknown_command")
            /\ pc' = "done"
            /\ exitStatus' = 0
            /\ UNCHANGED live
    /\ UNCHANGED <<launch, argv, ptrace, pid, status, waitRet, childVars, hostVars>>

\* A failed clone that is reported but does not end the program.
CloneFailedContinues ==
    /\ pid' = -1
    /\ plog' = Append(plog, "clone_failed")
    /\ pc' = "unshare"
    /\ UNCHANGED <<exitStatus, cpc, cargs>>

\* The parent's reaction to a failed clone: report and exit(1).
CloneFailed ==
    /\ pid' = -1
    /\ plog' = Append(plog, "clone_failed")
    /\ pc' = "done"
    /\ exitStatus' = 1
    /\ UNCHANGED <<cpc, cargs>>

\* run: libc::clone(child_func, stack_top, flags, &child_args) and the test
\* of its result.
Clone ==
    /\ pc = "clone"
    /\ ptrace' = Append(ptrace, "clone")
    /\ \/ CloneFailed
       \/ /\ pid' = HostChildPid
          /\ cpc' = ChildSeq[1]
          /\ cargs' = SubSeq(argv, 3, Len(argv))
          /\ pc' = "unshare"
          /\ UNCHANGED <<plog, exitStatus>>
    /\ UNCHANGED <<launch, argv, live, status, waitRet, ctrace, croot, chost,
                   mounts, cstatus, cmdCode, cexit, hostVars>>

\* run: libc::unshare(CLONE_NEWNS); a failure panics, which unwinds run
\* (dropping child_args and stack) and ends the program with status 101.
Unshare ==
    /\ pc = "unshare"
    /\ ptrace' = Append(ptrace, "unshare")
    /\ \/ /\ pc' = "waitpid"
          /\ UNCHANGED <<plog, live, exitStatus>>
       \/ /\ plog' = Append(plog, "unshare_failed")
          /\ live' = {}
          /\ pc' = "done"
          /\ exitStatus' = PanicExit
    /\ UNCHANGED <<launch, argv, pid, status, waitRet, childVars, hostVars>>

\* What the parent does once waitpid has returned: run returns (dropping
\* child_args and stack), main returns, the program ends with status 0.
AfterWait ==
    /\ live' = {}
    /\ pc' = "done"
    /\ exitStatus' = 0

\* run: libc::waitpid(pid, &mut status, 0); the result of the call is not
\* looked at.  The call returns when the child has terminated, or fails.
Waitpid ==
    /\ pc = "waitpid"
    /\ ptrace' = Append(ptrace, "waitpid")
    /\ \/ /\ cpc = "exited"
          /\ status' = WStatus(cexit)
          /\ waitRet' = pid
       \/ /\ waitRet' = -1
          /\ UNCHANGED status
    /\ AfterWait
    /\ UNCHANGED <<launch, argv, plog, pid, childVars, hostVars>>

\* The child has been reaped by a completed wait.
Reaped == waitRet = HostChildPid

----------------------------------------------------------------------------
(* The child: child_func and the functions it calls                        *)

\* A failure after which the child goes on to its cleanup step.
ChildPanicWithCleanup ==
    /\ cpc' = "unmount_proc"
    /\ cexit' = cexit

\* A panic in the child ends the child abnormally, whatever step it is in.
ChildPanic ==
    /\ cpc' = "exited"
    /\ cexit' = Aborted

\* ensure_debootstrap: `which debootstrap`; when that does not succeed,
\* apt-get update (result dropped) and apt-get install (only a failure to
\* start it panics; its exit status is not looked at).
EnsureDebootstrap ==
    /\ cpc = "ensure_debootstrap"
    /\ \/ /\ installed
          /\ ctrace' = Append(ctrace, "spawn_which")
          /\ cpc' = StepAfter("ensure_debootstrap")
          /\ UNCHANGED <<installed, cexit>>
       \/ /\ \E which \in {<<>>, <<"spawn_which">>} :
               /\ which # <<>> => ~installed
               /\ \/ /\ ctrace' = ctrace \o which \o <<"println_installing", "panic_install">>
                     /\ ChildPanic
                     /\ UNCHANGED installed
                  \/ /\ ctrace' = ctrace \o which \o
                            <<"println_installing", "spawn_apt_update", "spawn_apt_install">>
                     /\ installed' \in {installed, TRUE}
                     /\ cpc' = StepAfter("ensure_debootstrap")
                     /\ UNCHANGED cexit
    /\ UNCHANGED <<launch, parentVars, cargs, croot, chost, mounts, cstatus, cmdCode, dirs, files, provCount>>

\* bootstrap_rootfs without the early return.
RootExistsNever == FALSE

\* bootstrap_rootfs skipping the provisioning unconditionally.
RootExistsAlways == TRUE

\* bootstrap_rootfs: path.exists()
RootExists == RootPath \in dirs

\* bootstrap_rootfs: nothing when the path exists; otherwise run debootstrap
\* and panic when it cannot be started or does not succeed.
BootstrapRootfs ==
    /\ cpc = "bootstrap_rootfs"
    /\ IF RootExists
       THEN /\ cpc' = StepAfter("bootstrap_rootfs")
            /\ UNCHANGED <<ctrace, dirs, cexit, provCount>>
       ELSE \/ /\ ~installed
               /\ ctrace' = Append(ctrace, "panic_debootstrap_run")
               /\ ChildPanic
               /\ UNCHANGED <<dirs, provCount>>
            \/ /\ installed
               /\ provCount' = provCount + 1
               /\ \/ /\ ctrace' = Append(ctrace, "spawn_debootstrap")
                     /\ dirs' = dirs \cup {RootPath, RootPath \o <<"proc">>,
                                           RootPath \o <<"sys">>}
                     /\ cpc' = StepAfter("bootstrap_rootfs")
                     /\ UNCHANGED cexit
                  \/ /\ ctrace' = ctrace \o <<"spawn_debootstrap", "panic_debootstrap_failed">>
                     /\ dirs' \in {dirs, dirs \cup {RootPath}}
                     /\ ChildPanic
    /\ UNCHANGED <<launch, parentVars, cargs, croot, chost, mounts, cstatus, cmdCode, files, installed>>

\* A failed sethostname that ends the child.
HostnameFailedFatal ==
    /\ ctrace' = ctrace \o <<"sethostname", "eprintln_hostname">>
    /\ ChildPanic
    /\ UNCHANGED chost

\* set_hostname on a failed sethostname: print the error and return.
HostnameFailed ==
    /\ ctrace' = ctrace \o <<"sethostname", "eprintln_hostname">>
    /\ cpc' = StepAfter("set_hostname")
    /\ UNCHANGED <<chost, cexit>>

\* set_hostname("container"): a failure is printed and nothing else.
SetHostname ==
    /\ cpc = "set_hostname"
    /\ \/ /\ chost' = Hostname
          /\ ctrace' = Append(ctrace, "sethostname")
          /\ cpc' = StepAfter("set_hostname")
          /\ UNCHANGED cexit
       \/ HostnameFailed
    /\ UNCHANGED <<launch, parentVars, cargs, croot, mounts, cstatus, cmdCode, hostVars>>

\* chroot(path): libc::chroot, panic on failure, then set_current_dir("/"),
\* panic on failure.
Chroot ==
    /\ cpc = "chroot"
    /\ \/ /\ ctrace' = ctrace \o <<"chroot", "panic_chroot">>
          /\ ChildPanic
          /\ UNCHANGED croot
       \/ /\ Resolve(croot, RootPath) \in dirs
          /\ croot' = Resolve(croot, RootPath)
          /\ \/ /\ ctrace' = ctrace \o <<"chroot", "chdir", "panic_chdir">>
                /\ ChildPanic
             \/ /\ ctrace' = ctrace \o <<"chroot", "chdir">>
                /\ cpc' = StepAfter("chroot")
                /\ UNCHANGED cexit
    /\ UNCHANGED <<launch, parentVars, cargs, chost, mounts, cstatus, cmdCode, hostVars>>

\* mount_proc: mount proc at "/proc", panic on failure.
MountProc ==
    /\ cpc = "mount_proc"
    /\ \/ /\ Resolve(croot, ProcPath) \in dirs
          /\ ctrace' = Append(ctrace, "mount")
          /\ mounts' = mounts \cup {Resolve(croot, ProcPath)}
          /\ cpc' = StepAfter("mount_proc")
          /\ UNCHANGED cexit
       \/ /\ ctrace' = ctrace \o <<"mount", "panic_mount">>
          /\ ChildPanic
          /\ UNCHANGED mounts
    /\ UNCHANGED <<launch, parentVars, cargs, croot, chost, cstatus, cmdCode, hostVars>>

\* The files cg writes, in order, with their contents.
CgWrites ==
    <<[name |-> "pids.max", value |-> PidsMax],
      [name |-> "notify_on_release", value |-> NotifyFlag],
      [name |-> "cgroup.procs", value |-> ChildNsPid]>>

\* The files after the first n writes of cg into directory dir.
RECURSIVE ApplyWrites(_, _, _)
ApplyWrites(f, dir, n) ==
    IF n = 0 THEN f
    ELSE WriteFile(ApplyWrites(f, dir, n - 1),
                   Append(dir, CgWrites[n].name), CgWrites[n].value)

\* The calls cg has made when its first n writes were attempted.
CgEvents(n) == <<"mkdir_cgroup">> \o [i \in 1..n |-> "write_" \o CgWrites[i].name]

\* The expect of cg that panics when only k of its operations succeed.
CgPanic(k) == IF k = 0 THEN "panic_cgroup_dir" ELSE "panic_write_" \o CgWrites[k].name

\* The directory cg works in: "/sys/fs/cgroup/pids" as the child resolves it.
CgDir == Resolve(croot, CgroupPath)

\* cg: create_dir_all, then the three writes; each of the four panics on
\* failure.  k is the number of operations that succeed.
Cg ==
    /\ cpc = "cg"
    /\ \E k \in 0..(Len(CgWrites) + 1) :
          /\ ctrace' = IF k > Len(CgWrites)
                       THEN ctrace \o CgEvents(Len(CgWrites))
                       ELSE Append(ctrace \o CgEvents(k), CgPanic(k))
          /\ IF k = 0
             THEN UNCHANGED <<dirs, files>>
             ELSE /\ dirs' = dirs \cup {Resolve(croot, q) : q \in Prefixes(CgroupPath)}
                  /\ files' = ApplyWrites(files, CgDir, k - 1)
          /\ IF k = Len(CgWrites) + 1
             THEN /\ cpc' = StepAfter("cg")
                  /\ UNCHANGED cexit
             ELSE ChildPanic
    /\ UNCHANGED <<launch, parentVars, cargs, croot, chost, mounts, cstatus, cmdCode, installed, provCount>>

\* child_func prints its pid and enters run_cmd: Command::new(&args[0])
\* .args(&args[1..]).status(); the command is started, or the expect panics.
RunCmd ==
    /\ cpc = "run_cmd"
    /\ \/ /\ ctrace' = ctrace \o <<"println_child_pid", "spawn_cmd">>
          /\ cpc' = "cmd_running"
          /\ UNCHANGED cexit
       \/ /\ ctrace' = ctrace \o <<"println_child_pid", "panic_run_cmd">>
          /\ ChildPanic
    /\ UNCHANGED <<launch, parentVars, cargs, croot, chost, mounts, cstatus, cmdCode, hostVars>>

\* child_func returning the status right after run_cmd.
AfterCmdSkipUnmount == "exited"

\* The step child_func takes when the command has ended.
AfterCmd == StepAfter("run_cmd")

\* run_cmd: status() returns when the command has ended; the captured
\* status is status.code().unwrap_or(1).
CmdExit ==
    /\ cpc = "cmd_running"
    /\ \E c \in ExitCodes \cup {NoCode} :
          /\ cmdCode' = c
          /\ cstatus' = CodeOr1(c)
    /\ ctrace' = Append(ctrace, "cmd_exit")
    /\ cpc' = AfterCmd
    /\ UNCHANGED <<launch, parentVars, cargs, croot, chost, mounts, cexit, hostVars>>

\* unmount_proc, then `return status` of child_func: umount("/proc"), panic
\* on failure; otherwise the child exits with the captured status.
UnmountProc ==
    /\ cpc = "unmount_proc"
    /\ \/ /\ ctrace' = Append(ctrace, "umount")
          /\ mounts' = mounts \ {Resolve(croot, ProcPath)}
          /\ cpc' = "exited"
          /\ cexit' = Exited(cstatus % 256)
       \/ /\ ctrace' = ctrace \o <<"umount", "panic_unmount">>
          /\ ChildPanic
          /\ UNCHANGED mounts
    /\ UNCHANGED <<launch, parentVars, cargs, croot, chost, cstatus, cmdCode, hostVars>>

----------------------------------------------------------------------------
(* The program is started again on the same host.                          *)
Relaunch ==
    /\ pc = "done"
    /\ cpc \in {"none", "exited"}
    /\ launch < MaxLaunches
    /\ launch' = launch + 1
    /\ argv' \in ArgvSet
    /\ pc' = "main"
    /\ exitStatus' = NoExit
    /\ plog' = <<>>
    /\ ptrace' = <<>>
    /\ live' = {}
    /\ pid' = 0
    /\ status' = 0
    /\ waitRet' = 0
    /\ cpc' = "none"
    /\ cargs' = <<>>
    /\ ctrace' = <<>>
    /\ croot' = HostRoot
    /\ chost' = "host"
    /\ mounts' = {}
    /\ cstatus' = NoCode
    /\ cmdCode' = NotRun
    /\ cexit' = Running
    /\ UNCHANGED hostVars

Next ==
    \/ Main
    \/ Clone
    \/ Unshare
    \/ Waitpid
    \/ EnsureDebootstrap
    \/ BootstrapRootfs
    \/ SetHostname
    \/ Chroot
    \/ MountProc
    \/ Cg
    \/ RunCmd
    \/ CmdExit
    \/ UnmountProc
    \/ Relaunch

Spec == Init /\ [][Next]_vars

----------------------------------------------------------------------------
(* Properties                                                              *)

Count(seq, e) == Cardinality({i \in DOMAIN seq : seq[i] = e})
Has(seq, e)   == \E i \in DOMAIN seq : seq[i] = e
Pos(seq, e)   == CHOOSE i \in DOMAIN seq : seq[i] = e

\* e occurs in seq, and d occurs before its first occurrence.
Before(seq, d, e) == \E j \in DOMAIN seq : seq[j] = d /\ j < Pos(seq, e)

CloneSucceeded == pid = HostChildPid

\* The child ran all of child_func and returned the captured status.
ChildReturned == cpc = "exited" /\ cexit.kind = "exit"

\* C1: when clone, unshare and every child step succeed and the target
\* command exits with code c, the program terminates with exit status c.
C1_ExitCodePropagated ==
    (/\ pc = "done"
     /\ CloneSucceeded
     /\ Reaped
     /\ ChildReturned
     /\ chost = Hostname
     /\ cmdCode \in ExitCodes)
        => exitStatus = cmdCode

\* The target command could not be started: run_cmd panicked in its expect.
CmdNotStarted ==
    /\ cpc = "exited"
    /\ cexit = Aborted
    /\ ctrace # <<>>
    /\ ctrace[Len(ctrace)] = "panic_run_cmd"

\* C2: when the target command cannot be started the child takes no further
\* step and the program's exit status is 1.
C2_StartFailureIsStatus1 ==
    (pc = "done" /\ Reaped /\ CmdNotStarted)
        => (exitStatus = 1 /\ ~Has(ctrace, "umount"))

\* The primitives of the child bootstrap, in the order the claim gives.
BootstrapOrder ==
    <<"sethostname", "chroot", "chdir", "mount", "mkdir_cgroup",
      "write_pids.max", "write_notify_on_release", "write_cgroup.procs",
      "spawn_cmd", "cmd_exit", "umount">>

\* C3: the bootstrap steps occur at most once each and in the fixed order
\* hostname, chroot and chdir, mount, cgroup, target command, unmount; the
\* command starts only after the four setup steps, and the unmount happens
\* only after the command has ended.
C3_BootstrapOrder ==
    /\ \A e \in {BootstrapOrder[i] : i \in DOMAIN BootstrapOrder} : Count(ctrace, e) <= 1
    /\ \A b \in DOMAIN BootstrapOrder : \A a \in 1..(b - 1) :
          Has(ctrace, BootstrapOrder[b]) => Before(ctrace, BootstrapOrder[a], BootstrapOrder[b])
    /\ Has(ctrace, "spawn_cmd") =>
          /\ croot = RootPath
          /\ Resolve(croot, CgroupPath) \in dirs
          /\ Append(CgDir, "cgroup.procs") \in DOMAIN files
    /\ cpc = "cmd_running" => Resolve(croot, ProcPath) \in mounts
    /\ Has(ctrace, "umount") => cmdCode # NotRun

C3_Witness == ChildReturned /\ Has(ctrace, "umount") /\ Has(ctrace, "eprintln_hostname")

SpawnEvents ==
    {"spawn_which", "spawn_apt_update", "spawn_apt_install", "spawn_debootstrap",
     "spawn_cmd"}

\* C4: the child spawns no subprocess before the pid ceiling is written and
\* the child is registered in the group.
C4_LimitBeforeAnySpawn ==
    \A i \in DOMAIN ctrace :
        ctrace[i] \in SpawnEvents =>
            /\ \E j \in 1..(i - 1) : ctrace[j] = "write_pids.max"
            /\ \E j \in 1..(i - 1) : ctrace[j] = "write_cgroup.procs"

\* C5: the cgroup directory and the files cg writes are located under the
\* host's /sys/fs/cgroup/pids.
C5_CgroupAtHostPath ==
    /\ \A p \in DOMAIN files : SubSeq(p, 1, Len(p) - 1) = CgroupPath
    /\ Has(ctrace, "write_pids.max") => CgroupPath \in dirs

\* C6: whenever the parent has released the stack or child_args after a
\* successful clone, the child has terminated and been reaped.
C6_ReleaseOnlyAfterReap ==
    (CloneSucceeded /\ live # {"stack", "child_args"})
        => (Reaped /\ cpc = "exited")

\* C7: after a successful clone the parent calls unshare and then waitpid,
\* and does not terminate without having waited.
C7_UnshareThenWait ==
    /\ Has(ptrace, "unshare") => Before(ptrace, "clone", "unshare")
    /\ Has(ptrace, "waitpid") => Before(ptrace, "unshare", "waitpid")
    /\ (CloneSucceeded /\ pc = "done") => Has(ptrace, "waitpid")

\* C8: a failed clone is reported and ends the program with status 1,
\* without unshare, without waitpid and without any child step.
C8_CloneFailureAborts ==
    pid = -1 =>
        /\ pc = "done"
        /\ exitStatus = 1
        /\ Has(plog, "clone_failed")
        /\ ptrace = <<"clone">>
        /\ cpc = "none"
        /\ ctrace = <<>>

C8_Witness == pid = -1 /\ pc = "done"

\* C9: after a failed wait the program terminates with a non-zero status.
C9_WaitFailureIsFatal ==
    (pc = "done" /\ waitRet = -1) => exitStatus \notin {0, NoExit}

\* C10: once the target command has been started and has ended, with any
\* status, the child attempts the unmount exactly once, after the command
\* ended and before the child exits.
C10_UnmountAfterCmd ==
    /\ Count(ctrace, "umount") <= 1
    /\ Has(ctrace, "umount") => Before(ctrace, "cmd_exit", "umount")
    /\ (cmdCode # NotRun /\ cpc = "exited") => Count(ctrace, "umount") = 1
    /\ cpc = "unmount_proc" => (cmdCode # NotRun /\ ~Has(ctrace, "umount"))

C10_Witness == cpc = "exited" /\ cmdCode = NoCode /\ Count(ctrace, "umount") = 1

Last(seq) == seq[Len(seq)]

\* C11: when the target command was started and has ended, the child's exit
\* code is the captured status, whatever the unmount does.
C11_ChildExitIsCmdStatus ==
    (cpc = "exited" /\ cmdCode # NotRun) => cexit = Exited(CodeOr1(cmdCode))

\* C12: a failed sethostname is logged and the child goes on with chroot,
\* mount, cgroup and the command as after a successful one; the exit code of
\* a child that returned is the captured status in both cases.
C12_HostnameBestEffort ==
    /\ Has(ctrace, "eprintln_hostname") =>
          /\ Before(ctrace, "sethostname", "eprintln_hostname")
          /\ chost # Hostname
    /\ (Has(ctrace, "sethostname") /\ cpc # "chroot") => Has(ctrace, "chroot")
    /\ (Has(ctrace, "sethostname") /\ ChildReturned) => cexit.code = cstatus

C12_Witness ==
    /\ Has(ctrace, "eprintln_hostname")
    /\ cpc = "cmd_running"
    /\ chost = "host"

\* C13 as stated: provisioning is invoked at most once for the path.
C13_ProvisionAtMostOnce == provCount <= 1

\* C13 as amended: provisioning is invoked only while the root path does not
\* exist, and the path, once it exists, stays; so at most one invocation
\* succeeds and none follows it.
C13_ProvisionOnlyWhenAbsent ==
    [][/\ provCount' # provCount => (RootPath \notin dirs /\ provCount' = provCount + 1)
       /\ RootPath \in dirs => RootPath \in dirs']_vars

C13_Witness ==
    /\ launch = 2
    /\ provCount = 1
    /\ RootPath \in dirs
    /\ cpc = "set_hostname"
    /\ ~Has(ctrace, "spawn_debootstrap")

\* C14: no isolation primitive is invoked unless the first argument is `run`
\* and a command follows: `run` alone exits with status 1 and an unknown
\* subcommand only prints.
C14_NoPrimitiveWithoutRunCommand ==
    (Len(argv) < 3 \/ argv[2] # "run") =>
        /\ ptrace = <<>>
        /\ ctrace = <<>>
        /\ cpc = "none"
        /\ live = {}
        /\ (pc = "done" /\ Len(argv) = 2 /\ argv[2] = "run") =>
              (exitStatus = 1 /\ plog = <<"need_command">>)
        /\ (pc = "done" /\ Len(argv) = 2 /\ argv[2] # "run") =>
              plog = <<"unknown_command">>

C14_Witness == pc = "done" /\ argv = <<"cfs", "run">> /\ launch = 2 /\ DOMAIN files # {}

\* C15: an invocation without a subcommand prints the usage text and
\* terminates with a non-zero exit status.
C15_MissingSubcommandNonZero ==
    (pc = "done" /\ Len(argv) < 2) => (Has(plog, "usage") /\ exitStatus # 0)

\* C16: after a successful clone and unshare the parent does not terminate
\* while the child is still running.
C16_ParentOutlivesChild ==
    (pc = "done" /\ Has(ptrace, "waitpid")) => cpc = "exited"

SetupPanics ==
    {"panic_chroot", "panic_chdir", "panic_mount", "panic_cgroup_dir",
     "panic_write_pids.max", "panic_write_notify_on_release",
     "panic_write_cgroup.procs"}

\* C17: a failure of chroot, chdir, the mount, the cgroup directory or a
\* cgroup write ends the child at once: nothing follows the failure, the
\* command is never started, and nothing is undone (a mount made stays, the
\* cgroup directory stays).
C17_SetupFailureAborts ==
    \A e \in SetupPanics :
        Has(ctrace, e) =>
            /\ Last(ctrace) = e
            /\ cpc = "exited"
            /\ cexit = Aborted
            /\ cmdCode = NotRun
            /\ ~Has(ctrace, "spawn_cmd")
            /\ ~Has(ctrace, "umount")
            /\ Has(ctrace, "mount") /\ e # "panic_mount" => Resolve(croot, ProcPath) \in mounts
            /\ Has(ctrace, "write_pids.max") => CgDir \in dirs

C17_Witness ==
    /\ Has(ctrace, "panic_write_cgroup.procs")
    /\ Resolve(croot, ProcPath) \in mounts
    /\ CgDir \in dirs

FileName(p) == p[Len(p)]
FileDir(p)  == SubSeq(p, 1, Len(p) - 1)

\* C18: no cgroup file exists outside an existing directory, the command
\* starts only with pids.max at the ceiling, notify_on_release set and the
\* child registered; directories are never removed and every launch leaves
\* the same contents in the files.
C18_LimiterInvariant ==
    /\ [](/\ \A p \in DOMAIN files : FileDir(p) \in dirs
          /\ Has(ctrace, "write_pids.max") => Before(ctrace, "mkdir_cgroup", "write_pids.max")
          /\ Has(ctrace, "spawn_cmd") =>
                /\ {Append(CgDir, CgWrites[i].name) : i \in DOMAIN CgWrites} \subseteq DOMAIN files
                /\ files[Append(CgDir, "pids.max")] = PidsMax
                /\ files[Append(CgDir, "notify_on_release")] = NotifyFlag
                /\ files[Append(CgDir, "cgroup.procs")] = ChildNsPid
          /\ \A p \in DOMAIN files : FileName(p) = "pids.max" => files[p] = PidsMax)
    /\ [][/\ dirs \subseteq dirs'
          /\ \A p \in DOMAIN files : p \in DOMAIN files' /\ files'[p] = files[p]]_vars

C18_Witness ==
    /\ launch = 2
    /\ cpc = "cmd_running"
    /\ provCount = 0
    /\ files[Append(CgDir, "pids.max")] = PidsMax

\* C19: /proc is mounted under the substitute root and never at the host's
\* /proc, only after chroot and chdir, and it is mounted whenever the target
\* command is running.
C19_ProcUnderNewRoot ==
    /\ mounts \subseteq {RootPath \o ProcPath}
    /\ Has(ctrace, "mount") => (Before(ctrace, "chdir", "mount") /\ croot = RootPath)
    /\ cpc = "cmd_running" => (RootPath \o ProcPath) \in mounts

C19_Witness == cpc = "cmd_running" /\ mounts = {RootPath \o ProcPath}

ProvisionPanics == {"panic_debootstrap_run", "panic_debootstrap_failed"}

\* C20: chroot is attempted only when the root path exists; a child whose
\* provisioning could not run or failed aborts without chroot or any later
\* step.
C20_ChrootNeedsRoot ==
    /\ Has(ctrace, "chroot") => RootPath \in dirs
    /\ \A e \in ProvisionPanics :
          Has(ctrace, e) =>
              /\ Last(ctrace) = e
              /\ cpc = "exited"
              /\ cexit = Aborted
              /\ croot = HostRoot
              /\ ~Has(ctrace, "sethostname")

C20_Witness ==
    /\ Has(ctrace, "panic_debootstrap_failed")
    /\ RootPath \in dirs

====
